---- MODULE Spec2Model ----
(***************************************************************************)
(* A model of the Git data-model helpers (WorkingDirectoryStatus.equals,   *)
(* GitFileStatus.statusCompare / toString / toAbbreviation,                *)
(* Repository.equal / is / relativePath) and of the editor module's        *)
(* container bindings.                                                     *)
(*                                                                         *)
(* Conventions.  A JavaScript string is a TLA+ string.  An optional value  *)
(* (`T | undefined`, or an optional property) is a sequence of length at   *)
(* most one: <<>> is undefined, <<v>> is the value v.  An object carries   *)
(* its own property names in insertion order in the field `keys`, because  *)
(* JSON.stringify walks the properties in that order.                      *)
(***************************************************************************)
EXTENDS Integers, Sequences, FiniteSets, TLC

VARIABLES
    left, right, eqResult,                    \* WorkingDirectoryStatus.equals
    status, status2, staged,                  \* GitFileStatus inputs
    cmpResult, strResult, abbrResult,         \* GitFileStatus outputs
    repoA, repoB, repoC, equalResult,         \* Repository.equal
    relRepository, relUri, relResult,         \* Repository.relativePath
    loaded, singleton, created, resolved      \* the editor module's container

statusVars == <<left, right, eqResult>>
fileVars   == <<status, status2, staged, cmpResult, strResult, abbrResult>>
repoVars   == <<repoA, repoB, repoC, equalResult, relRepository, relUri, relResult>>
editorVars == <<loaded, singleton, created, resolved>>
vars       == <<statusVars, fileVars, repoVars, editorVars>>

undefined == <<>>
Some(v)   == <<v>>
Get(o)    == o[1]

(***************************************************************************)
(* enum GitFileStatus                                                      *)
(***************************************************************************)
New        == 0
Copied     == 1
Modified   == 2
Renamed    == 3
Deleted    == 4
Conflicted == 5
GitFileStatus == {New, Copied, Modified, Renamed, Deleted, Conflicted}

(***************************************************************************)
(* JSON.stringify, as equals uses it on a WorkingDirectoryStatus: an       *)
(* object is "{" members "}", the members in the object's own property     *)
(* order, a property whose value is undefined left out; an array is        *)
(* "[" elements "]"; a string is quoted (the strings of the model hold no  *)
(* character that JSON escapes); a number and a boolean are their          *)
(* literals.                                                               *)
(***************************************************************************)
Quote(s) == "\"" \o s \o "\""

BoolJSON(b) == IF b THEN "true" ELSE "false"

\* The serialised value of property k of the file change c; undefined when
\* the property is absent.
ChangeValueJSON(c, k) ==
    CASE k = "uri"    -> Some(Quote(c.uri))
      [] k = "status" -> Some(ToString(c.status))
      [] k = "oldUri" -> IF c.oldUri = undefined THEN undefined
                         ELSE Some(Quote(Get(c.oldUri)))
      [] k = "staged" -> IF c.staged = undefined THEN undefined
                         ELSE Some(BoolJSON(Get(c.staged)))

RECURSIVE ChangeMembersJSON(_, _, _)
ChangeMembersJSON(c, ks, first) ==
    IF ks = <<>> THEN ""
    ELSE LET v == ChangeValueJSON(c, Head(ks)) IN
         IF v = undefined THEN ChangeMembersJSON(c, Tail(ks), first)
         ELSE (IF first THEN "" ELSE ",") \o Quote(Head(ks)) \o ":" \o Get(v)
              \o ChangeMembersJSON(c, Tail(ks), FALSE)

ChangeJSON(c) == "{" \o ChangeMembersJSON(c, c.keys, TRUE) \o "}"

RECURSIVE ChangesJSON(_, _)
ChangesJSON(cs, first) ==
    IF cs = <<>> THEN ""
    ELSE (IF first THEN "" ELSE ",") \o ChangeJSON(Head(cs))
         \o ChangesJSON(Tail(cs), FALSE)

AheadBehindJSON(ab) ==
    "{" \o Quote("ahead") \o ":" \o ToString(ab.ahead) \o ","
        \o Quote("behind") \o ":" \o ToString(ab.behind) \o "}"

OptStringJSON(o) == IF o = undefined THEN undefined ELSE Some(Quote(Get(o)))

StatusValueJSON(s, k) ==
    CASE k = "exists"         -> Some(BoolJSON(s.exists))
      [] k = "changes"        -> Some("[" \o ChangesJSON(s.changes, TRUE) \o "]")
      [] k = "branch"         -> OptStringJSON(s.branch)
      [] k = "upstreamBranch" -> OptStringJSON(s.upstreamBranch)
      [] k = "aheadBehind"    -> IF s.aheadBehind = undefined THEN undefined
                                 ELSE Some(AheadBehindJSON(Get(s.aheadBehind)))
      [] k = "currentHead"    -> OptStringJSON(s.currentHead)

RECURSIVE StatusMembersJSON(_, _, _)
StatusMembersJSON(s, ks, first) ==
    IF ks = <<>> THEN ""
    ELSE LET v == StatusValueJSON(s, Head(ks)) IN
         IF v = undefined THEN StatusMembersJSON(s, Tail(ks), first)
         ELSE (IF first THEN "" ELSE ",") \o Quote(Head(ks)) \o ":" \o Get(v)
              \o StatusMembersJSON(s, Tail(ks), FALSE)

JSONstringify(s) == "{" \o StatusMembersJSON(s, s.keys, TRUE) \o "}"

(***************************************************************************)
(* WorkingDirectoryStatus.equals                                           *)
(***************************************************************************)
\* left.aheadBehind ? left.aheadBehind.ahead : -1
aheadOf(s)  == IF s.aheadBehind # undefined THEN Get(s.aheadBehind).ahead ELSE -1
behindOf(s) == IF s.aheadBehind # undefined THEN Get(s.aheadBehind).behind ELSE -1

\* The else branch returns `left === undefined` instead of `left === right`.
equalsElseLeft(l, r) ==
    IF l # undefined /\ r # undefined
    THEN LET a == Get(l)  b == Get(r) IN
         /\ a.exists = b.exists
         /\ a.branch = b.branch
         /\ a.upstreamBranch = b.upstreamBranch
         /\ a.currentHead = b.currentHead
         /\ aheadOf(a) = aheadOf(b)
         /\ behindOf(a) = behindOf(b)
         /\ Len(a.changes) = Len(b.changes)
         /\ JSONstringify(a) = JSONstringify(b)
    ELSE l = undefined

\* The else branch returns false instead of `left === right`.
equalsElseFalse(l, r) ==
    IF l # undefined /\ r # undefined
    THEN LET a == Get(l)  b == Get(r) IN
         /\ a.exists = b.exists
         /\ a.branch = b.branch
         /\ a.upstreamBranch = b.upstreamBranch
         /\ a.currentHead = b.currentHead
         /\ aheadOf(a) = aheadOf(b)
         /\ behindOf(a) = behindOf(b)
         /\ Len(a.changes) = Len(b.changes)
         /\ JSONstringify(a) = JSONstringify(b)
    ELSE FALSE

\* The first `&&` of the chain is written `||`.
equalsOr(l, r) ==
    IF l # undefined /\ r # undefined
    THEN LET a == Get(l)  b == Get(r) IN
         \/ a.exists = b.exists
         \/ /\ a.branch = b.branch
            /\ a.upstreamBranch = b.upstreamBranch
            /\ a.currentHead = b.currentHead
            /\ aheadOf(a) = aheadOf(b)
            /\ behindOf(a) = behindOf(b)
            /\ Len(a.changes) = Len(b.changes)
            /\ JSONstringify(a) = JSONstringify(b)
    ELSE l = r

\* The JSON.stringify conjunct is left out: the field-wise comparison alone.
equalsFieldWise(l, r) ==
    IF l # undefined /\ r # undefined
    THEN LET a == Get(l)  b == Get(r) IN
         /\ a.exists = b.exists
         /\ a.branch = b.branch
         /\ a.upstreamBranch = b.upstreamBranch
         /\ a.currentHead = b.currentHead
         /\ aheadOf(a) = aheadOf(b)
         /\ behindOf(a) = behindOf(b)
         /\ Len(a.changes) = Len(b.changes)
    ELSE l = r

equals(l, r) ==
    IF l # undefined /\ r # undefined
    THEN LET a == Get(l)  b == Get(r) IN
         /\ a.exists = b.exists
         /\ a.branch = b.branch
         /\ a.upstreamBranch = b.upstreamBranch
         /\ a.currentHead = b.currentHead
         /\ aheadOf(a) = aheadOf(b)
         /\ behindOf(a) = behindOf(b)
         /\ Len(a.changes) = Len(b.changes)
         /\ JSONstringify(a) = JSONstringify(b)
    ELSE l = r

(***************************************************************************)
(* The statuses the model draws equals' arguments from.                    *)
(***************************************************************************)
MaxChanges == 1

ChangeKeys == <<"uri", "status", "oldUri", "staged">>

FileChanges ==
    { [uri |-> "file:///r/a", status |-> Modified, oldUri |-> undefined,
       staged |-> undefined, keys |-> ChangeKeys],
      [uri |-> "file:///r/b", status |-> Renamed, oldUri |-> Some("file:///r/a"),
       staged |-> Some(TRUE), keys |-> ChangeKeys] }

ChangeLists == UNION { [1..n -> FileChanges] : n \in 0..MaxChanges }

AheadBehinds ==
    { undefined } \cup
    { Some([ahead |-> p[1], behind |-> p[2]]) :
        p \in { <<-1, -1>>, <<0, 0>>, <<1, 0>>, <<0, 1>> } }

\* Two producers of a status: one writes the properties in the interface's
\* declaration order, the other writes `changes` after the branch data.
StatusKeyOrders ==
    { <<"exists", "changes", "branch", "upstreamBranch", "aheadBehind", "currentHead">>,
      <<"exists", "branch", "upstreamBranch", "aheadBehind", "changes", "currentHead">> }

Statuses ==
    [ exists         : BOOLEAN,
      changes        : ChangeLists,
      branch         : { undefined, Some("master") },
      upstreamBranch : { undefined, Some("origin/master") },
      aheadBehind    : AheadBehinds,
      currentHead    : { undefined, Some("abc123") },
      keys           : StatusKeyOrders ]

OptStatuses == { undefined } \cup { Some(s) : s \in Statuses }

(***************************************************************************)
(* namespace GitFileStatus                                                 *)
(***************************************************************************)
\* The operands are written in the wrong order: right - left.
statusCompareReversed(l, r) == r - l

statusCompare(l, r) == l - r

\* `!!staged`: an undefined flag is false.  The default case throws; the
\* thrown Error is the value "Error" here.
toString(s, st) ==
    CASE s = New        -> IF st # undefined /\ Get(st) THEN "Added" ELSE "Unstaged"
      [] s = Renamed    -> "Renamed"
      [] s = Copied     -> "Copied"
      [] s = Modified   -> "Modified"
      [] s = Deleted    -> "Deleted"
      [] s = Conflicted -> "Conflicted"
      [] OTHER          -> "Error"

\* String.prototype.charAt: the one-character string at index i (from 0),
\* the empty string when i is out of range.
charAt(s, i) == IF 0 <= i /\ i < Len(s) THEN SubSeq(s, i + 1, i + 1) ELSE ""

\* The staged flag is not passed on: toString(status).charAt(0).
toAbbreviationNoStaged(s, st) == charAt(toString(s, undefined), 0)

toAbbreviation(s, st) == charAt(toString(s, st), 0)

StagedFlags == { undefined, Some(TRUE), Some(FALSE) }

(***************************************************************************)
(* namespace Repository                                                    *)
(*                                                                         *)
(* A Repository object is [type |-> "object", id, localUri], id standing   *)
(* for the object's identity; a primitive string passed where a            *)
(* Repository is accepted is [type |-> "string", value].                   *)
(***************************************************************************)
\* The objects are compared by identity alone.
equalIdentity(r1, r2) == r1 = r2

equal(r1, r2) ==
    IF r1 # undefined /\ r2 # undefined
    THEN Get(r1).localUri = Get(r2).localUri
    ELSE r1 = r2

\* !!repository && 'localUri' in repository.  The `in` operator throws a
\* TypeError when its right operand is not an object; !!"" is false.
is(r) ==
    IF r.type = "string"
    THEN IF r.value = "" THEN "false" ELSE "TypeError"
    ELSE IF "localUri" \in DOMAIN r THEN "true" ELSE "false"

\* new URI(s).toString(): the string parsed and printed again, with a
\* space percent-encoded.
RECURSIVE URItoString(_)
URItoString(s) ==
    IF s = "" THEN ""
    ELSE (IF SubSeq(s, 1, 1) = " " THEN "%20" ELSE SubSeq(s, 1, 1))
         \o URItoString(SubSeq(s, 2, Len(s)))

\* uri.toString() of a `URI | string`: a string is itself.
uriToString(u) == IF u.type = "string" THEN u.value ELSE URItoString(u.value)

\* String.prototype.substr(start), start >= 0.
substr(s, start) == IF start >= Len(s) THEN "" ELSE SubSeq(s, start + 1, Len(s))

Path(raw)  == [type |-> "Path", raw |-> raw]
TypeError  == [type |-> "TypeError", raw |-> ""]

\* The separator is not skipped: substr(repositoryUri.toString().length).
relativePathNoSeparator(repository, uri) ==
    LET isRepo == is(repository) IN
    IF isRepo = "TypeError" THEN TypeError
    ELSE LET repositoryUri ==
                 URItoString(IF isRepo = "true" THEN repository.localUri
                             ELSE repository.value)
         IN  Path(substr(uriToString(uri), Len(repositoryUri)))

relativePath(repository, uri) ==
    LET isRepo == is(repository) IN
    IF isRepo = "TypeError" THEN TypeError
    ELSE LET repositoryUri ==
                 URItoString(IF isRepo = "true" THEN repository.localUri
                             ELSE repository.value)
         IN  Path(substr(uriToString(uri), Len(repositoryUri) + 1))

RepositoryUris == { "file:///r", "file:///my repo" }

Repositories ==
    { [type |-> "object", id |-> i, localUri |-> u] : i \in 1..2, u \in RepositoryUris }

OptRepositories == { undefined } \cup { Some(r) : r \in Repositories }

\* relativePath's first argument: Repository | string.
RepositoryArgs ==
    { [type |-> "object", id |-> 1, localUri |-> u] : u \in RepositoryUris }
    \cup { [type |-> "string", value |-> u] : u \in RepositoryUris \cup { "" } }

ResourceStrings ==
    { u \o "/" \o p : u \in RepositoryUris \cup { "" },
                      p \in { "", "a.txt", "src/b c.txt" } }
    \cup { "file:///elsewhere" }

\* relativePath's second argument: URI | string.
UriArgs == { [type |-> t, value |-> v] : t \in { "URI", "string" }, v \in ResourceStrings }

(***************************************************************************)
(* editorModule: the three bindings, as the container resolves them.       *)
(* A resolution is <<cache, created, instance>>: the singleton cache and   *)
(* the number of EditorOpenerService instances constructed after it, and   *)
(* the instance it returns (instances are numbered as constructed).        *)
(***************************************************************************)
\* inSingletonScope() is left out: the binding is transient.
getEditorOpenerServiceTransient(cache, n) == <<cache, n + 1, n + 1>>

\* bind(EditorOpenerService).toSelf().inSingletonScope()
getEditorOpenerService(cache, n) ==
    IF cache = undefined THEN <<Some(n + 1), n + 1, n + 1>>
    ELSE <<cache, n, Get(cache)>>

\* bind(TheiaPlugin).toDynamicValue(context => context.container.get(EditorOpenerService))
getTheiaPlugin(cache, n) == getEditorOpenerService(cache, n)

\* bind(IOpenerService).toDynamicValue(context => context.container.get(EditorOpenerService))
getIOpenerService(cache, n) == getEditorOpenerService(cache, n)

MaxResolutions == 4

(***************************************************************************)
(* The state machines.  Each specification draws the arguments of the      *)
(* functions it is about in its initial state, and its actions apply the   *)
(* functions; the variables of the other specifications stay idle.         *)
(***************************************************************************)
StatusIdle ==
    /\ left = undefined /\ right = undefined /\ eqResult = undefined

FileIdle ==
    /\ status = New /\ status2 = New /\ staged = undefined
    /\ cmpResult = undefined /\ strResult = undefined /\ abbrResult = undefined

RepoIdle ==
    /\ repoA = undefined /\ repoB = undefined /\ repoC = undefined
    /\ equalResult = undefined
    /\ relRepository = [type |-> "string", value |-> ""]
    /\ relUri = [type |-> "string", value |-> ""]
    /\ relResult = undefined

EditorIdle ==
    /\ loaded = FALSE /\ singleton = undefined /\ created = 0 /\ resolved = <<>>

\* ---- WorkingDirectoryStatus.equals(left, right)
InitStatus ==
    /\ left \in OptStatuses /\ right \in OptStatuses /\ eqResult = undefined
    /\ FileIdle /\ RepoIdle /\ EditorIdle

Equals ==
    /\ eqResult = undefined
    /\ eqResult' = Some(equals(left, right))
    /\ UNCHANGED <<left, right, fileVars, repoVars, editorVars>>

NextStatus == Equals

SpecStatus == InitStatus /\ [][NextStatus]_vars

\* ---- GitFileStatus.statusCompare, toString, toAbbreviation
InitFile ==
    /\ status \in GitFileStatus /\ status2 \in GitFileStatus /\ staged \in StagedFlags
    /\ cmpResult = undefined /\ strResult = undefined /\ abbrResult = undefined
    /\ StatusIdle /\ RepoIdle /\ EditorIdle

StatusCompare ==
    /\ cmpResult = undefined
    /\ cmpResult' = Some(statusCompare(status, status2))
    /\ UNCHANGED <<status, status2, staged, strResult, abbrResult,
                   statusVars, repoVars, editorVars>>

ToStringCall ==
    /\ strResult = undefined
    /\ strResult' = Some(toString(status, staged))
    /\ UNCHANGED <<status, status2, staged, cmpResult, abbrResult,
                   statusVars, repoVars, editorVars>>

ToAbbreviation ==
    /\ abbrResult = undefined
    /\ abbrResult' = Some(toAbbreviation(status, staged))
    /\ UNCHANGED <<status, status2, staged, cmpResult, strResult,
                   statusVars, repoVars, editorVars>>

NextFile == StatusCompare \/ ToStringCall \/ ToAbbreviation

SpecFile == InitFile /\ [][NextFile]_vars

\* ---- Repository.equal on the three pairs of (repoA, repoB, repoC), and
\* ---- Repository.relativePath(relRepository, relUri)
InitRepo ==
    /\ repoA \in OptRepositories /\ repoB \in OptRepositories
    /\ repoC \in OptRepositories
    /\ equalResult = undefined
    /\ relRepository \in RepositoryArgs /\ relUri \in UriArgs
    /\ relResult = undefined
    /\ StatusIdle /\ FileIdle /\ EditorIdle

Equal ==
    /\ equalResult = undefined
    /\ equalResult' = Some([ab |-> equal(repoA, repoB), ba |-> equal(repoB, repoA),
                            bc |-> equal(repoB, repoC), ac |-> equal(repoA, repoC),
                            aa |-> equal(repoA, repoA)])
    /\ UNCHANGED <<repoA, repoB, repoC, relRepository, relUri, relResult,
                   statusVars, fileVars, editorVars>>

RelativePath ==
    /\ relResult = undefined
    /\ relResult' = Some(relativePath(relRepository, relUri))
    /\ UNCHANGED <<repoA, repoB, repoC, equalResult, relRepository, relUri,
                   statusVars, fileVars, editorVars>>

NextRepo == Equal \/ RelativePath

SpecRepo == InitRepo /\ [][NextRepo]_vars

\* ---- the container: load(editorModule), then get(serviceIdentifier)
InitEditor == StatusIdle /\ FileIdle /\ RepoIdle /\ EditorIdle

Load ==
    /\ ~loaded
    /\ loaded' = TRUE
    /\ UNCHANGED <<singleton, created, resolved, statusVars, fileVars, repoVars>>

Resolve(service, r) ==
    /\ loaded
    /\ Len(resolved) < MaxResolutions
    /\ singleton' = r[1]
    /\ created' = r[2]
    /\ resolved' = Append(resolved, [service |-> service, instance |-> r[3]])
    /\ UNCHANGED <<loaded, statusVars, fileVars, repoVars>>

GetEditorOpenerService ==
    Resolve("EditorOpenerService", getEditorOpenerService(singleton, created))

GetTheiaPlugin == Resolve("TheiaPlugin", getTheiaPlugin(singleton, created))

GetIOpenerService == Resolve("IOpenerService", getIOpenerService(singleton, created))

NextEditor == Load \/ GetEditorOpenerService \/ GetTheiaPlugin \/ GetIOpenerService

SpecEditor == InitEditor /\ [][NextEditor]_vars

(***************************************************************************)
(* Properties                                                              *)
(***************************************************************************)
BothDefined == left # undefined /\ right # undefined

\* Deep equality of two statuses: the same exists, branch, upstreamBranch,
\* currentHead and aheadBehind, and changes of the same length that agree
\* position by position on uri, status, oldUri and staged.
DeepEqual(a, b) ==
    /\ a.exists = b.exists
    /\ a.branch = b.branch
    /\ a.upstreamBranch = b.upstreamBranch
    /\ a.currentHead = b.currentHead
    /\ a.aheadBehind = b.aheadBehind
    /\ Len(a.changes) = Len(b.changes)
    /\ \A i \in 1..Len(a.changes) :
          /\ a.changes[i].uri = b.changes[i].uri
          /\ a.changes[i].status = b.changes[i].status
          /\ a.changes[i].oldUri = b.changes[i].oldUri
          /\ a.changes[i].staged = b.changes[i].staged

\* C1: equals is reflexive and symmetric: equals(s, s) is true for every
\* status s, defined or undefined, and equals(l, r) = equals(r, l).
C1_ReflexiveSymmetric ==
    eqResult # undefined =>
        /\ left = right => Get(eqResult) = TRUE
        /\ Get(eqResult) = equals(right, left)

C1_Witness ==
    /\ eqResult = Some(TRUE)
    /\ BothDefined /\ left = right
    /\ Len(Get(left).changes) = 1

\* C2: for two defined statuses, equals is false whenever they differ in
\* exists, branch, upstreamBranch, currentHead, the ahead count, the behind
\* count (an absent aheadBehind counted as -1, -1) or the length of changes.
C2_FieldDifferenceIsFalse ==
    (eqResult # undefined /\ BothDefined) =>
        LET l == Get(left)  r == Get(right) IN
        ( \/ l.exists # r.exists
          \/ l.branch # r.branch
          \/ l.upstreamBranch # r.upstreamBranch
          \/ l.currentHead # r.currentHead
          \/ (IF l.aheadBehind = undefined THEN -1 ELSE Get(l.aheadBehind).ahead)
               # (IF r.aheadBehind = undefined THEN -1 ELSE Get(r.aheadBehind).ahead)
          \/ (IF l.aheadBehind = undefined THEN -1 ELSE Get(l.aheadBehind).behind)
               # (IF r.aheadBehind = undefined THEN -1 ELSE Get(r.aheadBehind).behind)
          \/ Len(l.changes) # Len(r.changes) )
        => Get(eqResult) = FALSE

\* Two defined statuses that differ in the length of changes and in nothing
\* else, compared.
C2_Witness ==
    /\ eqResult = Some(FALSE) /\ BothDefined
    /\ Len(Get(left).changes) # Len(Get(right).changes)
    /\ [Get(left) EXCEPT !.changes = <<>>] = [Get(right) EXCEPT !.changes = <<>>]

\* C3: when at least one argument is absent, equals is true iff both are.
C3_AbsentArgument ==
    (eqResult # undefined /\ (left = undefined \/ right = undefined)) =>
        Get(eqResult) = (left = undefined /\ right = undefined)

C3_Witness ==
    eqResult = Some(FALSE) /\ left # undefined /\ right = undefined

\* C4: for two defined statuses, equals is true if they are deep equal and
\* false otherwise.
C4_TrueIffDeepEqual ==
    (eqResult # undefined /\ BothDefined) =>
        (Get(eqResult) = DeepEqual(Get(left), Get(right)))

\* C10: equals is never true for two defined statuses of which exactly one
\* has aheadBehind, also when the present pair is ahead = -1, behind = -1.
C10_SentinelDoesNotEqualAbsent ==
    ( /\ eqResult # undefined /\ BothDefined
      /\ (Get(left).aheadBehind = undefined) # (Get(right).aheadBehind = undefined) )
    => Get(eqResult) = FALSE

\* All else alike, one side without aheadBehind and the other with the pair
\* the field-wise comparison substitutes for an absent one.
C10_Witness ==
    /\ eqResult = Some(FALSE) /\ BothDefined
    /\ Get(left).aheadBehind = undefined
    /\ Get(right).aheadBehind = Some([ahead |-> -1, behind |-> -1])
    /\ [Get(left) EXCEPT !.aheadBehind = undefined]
         = [Get(right) EXCEPT !.aheadBehind = undefined]

\* The repository's URI, as relativePath's argument gives it.
RepositoryUriOf(r) == URItoString(IF r.type = "object" THEN r.localUri ELSE r.value)

\* The resource URI is the repository URI, one separator and a suffix.
NestedUnderRepository ==
    LET u == uriToString(relUri)  pre == RepositoryUriOf(relRepository) IN
    /\ Len(u) > Len(pre)
    /\ SubSeq(u, 1, Len(pre) + 1) = pre \o "/"

\* C5: for a repository given as an object or as a string, and a resource
\* URI that is the repository URI, one separator and a suffix p, relativePath
\* returns the Path built from exactly p.
C5_RelativePathStripsPrefix ==
    (relResult # undefined /\ NestedUnderRepository) =>
        /\ Get(relResult).type = "Path"
        /\ uriToString(relUri)
             = RepositoryUriOf(relRepository) \o "/" \o Get(relResult).raw

\* C6: Repository.equal is equality of localUri on two defined
\* repositories, and is true iff both are undefined when one is; hence it
\* is reflexive, symmetric and transitive.
C6_EqualIsUriEquality ==
    equalResult # undefined =>
        LET e == Get(equalResult) IN
        /\ (repoA # undefined /\ repoB # undefined)
             => e.ab = (Get(repoA).localUri = Get(repoB).localUri)
        /\ (repoA = undefined \/ repoB = undefined)
             => e.ab = (repoA = undefined /\ repoB = undefined)
        /\ e.aa
        /\ e.ab = e.ba
        /\ (e.ab /\ e.bc) => e.ac

\* Two distinct repository objects of the same localUri, compared.
C6_Witness ==
    /\ equalResult # undefined
    /\ repoA # undefined /\ repoB # undefined /\ repoC # undefined
    /\ Get(repoA).id # Get(repoB).id
    /\ Get(repoA).localUri = Get(repoB).localUri
    /\ Get(equalResult).ab /\ Get(equalResult).bc /\ Get(equalResult).ac

\* The enumeration's members in the order of their declaration.
Declaration == <<New, Copied, Modified, Renamed, Deleted, Conflicted>>
DeclaredAt(s) == CHOOSE i \in DOMAIN Declaration : Declaration[i] = s

\* C7: statusCompare orders the six statuses as declared: negative iff the
\* left one is declared first, zero iff they are the same, positive iff it
\* is declared later; it is antisymmetric and transitive.
C7_StatusCompareDeclarationOrder ==
    cmpResult # undefined =>
        LET c == Get(cmpResult) IN
        /\ (c < 0) = (DeclaredAt(status) < DeclaredAt(status2))
        /\ (c = 0) = (status = status2)
        /\ (c > 0) = (DeclaredAt(status) > DeclaredAt(status2))
        /\ c = -statusCompare(status2, status)
        /\ \A s3 \in GitFileStatus :
              /\ (c < 0 /\ statusCompare(status2, s3) < 0)
                   => statusCompare(status, s3) < 0
              /\ (c <= 0 /\ statusCompare(status2, s3) <= 0)
                   => statusCompare(status, s3) <= 0

C7_Witness ==
    /\ cmpResult # undefined /\ Get(cmpResult) < 0
    /\ status = Copied /\ status2 = Deleted

\* C8: toAbbreviation(status, staged) is the one-character string made of
\* the first character of toString(status, staged), and an undefined staged
\* flag gives what false gives.
C8_AbbreviationIsFirstCharacter ==
    /\ (abbrResult # undefined /\ strResult # undefined) =>
          /\ Len(Get(abbrResult)) = 1
          /\ Get(abbrResult) = SubSeq(Get(strResult), 1, 1)
    /\ (abbrResult # undefined /\ staged = undefined) =>
          Get(abbrResult) = toAbbreviation(status, Some(FALSE))

C8_Witness ==
    /\ status = New /\ staged = Some(TRUE)
    /\ strResult = Some("Added") /\ abbrResult = Some("A")

\* C9: once the module is loaded, whatever is resolved through its three
\* bindings, at most one EditorOpenerService is ever constructed and every
\* resolution returns that instance.
C9_OneServiceInstance ==
    loaded =>
        /\ created <= 1
        /\ \A i \in DOMAIN resolved :
              /\ created = 1
              /\ singleton = Some(resolved[i].instance)
              /\ resolved[i].instance = resolved[1].instance

C9_Witness ==
    /\ loaded
    /\ { resolved[i].service : i \in DOMAIN resolved }
         = { "EditorOpenerService", "TheiaPlugin", "IOpenerService" }
    /\ resolved[1].service = "TheiaPlugin"
====
